---------------------------- MODULE Spec2Model ----------------------------
(***************************************************************************)
(* A model of the ingestion pipeline of bayesian_aggregation:              *)
(*   SQSClient / SQSOfflineClient  (the message sources and deduplicate),  *)
(*   SQSMessageParser              (cross-cycle suppression, batch build), *)
(*   SQSAggregator                 (accumulate / aggregate / loop / SIGINT)*)
(*                                                                         *)
(* Specifications:                                                         *)
(*   Spec        the orchestrator SQSAggregator.loop with its source, its  *)
(*               task parsers, its engines and the SIGINT handler          *)
(*   SpecClient  SQSOfflineClient alone (getMessages / update)             *)
(*   SpecDedup   SQSClient.deduplicate as a function of a message list     *)
(*   SpecParser  SQSMessageParser.genAggregatorInput on a table of rows    *)
(***************************************************************************)
EXTENDS Integers, Sequences, FiniteSets, TLC

VARIABLES
    \* ---- SQSAggregator (src/bayesian_aggregation/SQSAggregator.py)
    offlineMode,              \* self.offlineMode
    deleteMessagesFromQueue,  \* self.deleteMessagesFromQueue
    saveIntermittently,       \* self.saveIntermittently
    stopOnExhaustion,         \* argument of the running loop() frame
    scenario,                 \* what the outside world does in this run (its limits)
    allUniqueMessages,        \* self.allUniqueMessages, the pending buffer
    pc,                       \* position of the running loop() frame
    task,                     \* index of the for-loop of aggregate()
    n_loop,                   \* local of loop()
    retries,                  \* local of loop()
    suspended,                \* the frames a declined SIGINT left behind: "cycle" or "between"
    subAggregators,           \* per task: ids of the batches the engine has incorporated
    checkpoint,               \* what the most recent save() persisted
    \* ---- SQSMessageParser, one per task
    allClassificationIds,     \* per task: self.allClassificationIds
    processedClassifications, \* per task: self.processedClassifications (None or a table)
    aggregatorInputData,      \* per task: self.aggregatorInputData (ids of its annos)
    \* ---- the live queue behind SQSClient
    queue,                    \* messages held by the SQS queue
    nextId,                   \* next classification id the outside world produces
    badSent,                  \* how many filtered / corrupted messages were produced
    \* ---- SQSOfflineClient
    allMessages,              \* self.allMessages
    parsedCount,              \* self.parsedCount
    file,                     \* content of the dump file on disk
    fileChanged,              \* os.stat(filename).st_mtime > self.mTimes[filename]
    batchSize,                \* batchSize argument of getMessages, 0 for None
    \* ---- history of the calls (observers, never read by the program)
    returned,                 \* ids the offline getMessages has returned so far
    lastReturn,               \* messages returned by the most recent getMessages
    called,                   \* whether the offline getMessages has been called
    updated,                  \* whether update() has run
    aggregateResult,          \* how the aggregate() call of the running frame ended
    exhaustion,               \* whether that call's accumulateMessages hit an empty fetch
    cycleParsed,              \* tasks whose parser ran in that call
    cycleFailed,              \* whether some parser reported no eligible data in it
    cycleLoads,               \* tasks whose engine received load in it
    cycleEstimates,           \* tasks whose engine received estimate_parameters in it
    lastInput,                \* uniqueMessages of the most recent processMessages call
    lastEligible,             \* per task: ids the most recent processMessages accepted
    seenBefore,               \* per task: ids in the inputs of the calls before that one
    inputHist,                \* per task: ids in the inputs of all its calls
    loopSaves,                \* save() calls made by loop() after that call
    signals,                  \* SIGINTs delivered so far
    \* ---- SQSClient.deduplicate on its own
    origList,                 \* the message sequence M
    dedupInput,               \* the argument of deduplicate
    result,                   \* what deduplicate returned
    dstep,                    \* "input", "deduped" or "rededuped"
    \* ---- one SQSMessageParser seen row by row
    classificationsFrame,     \* the frame handed to processClassifications
    processed,                \* whether processClassifications has run
    table,                    \* the rows of self.processedClassifications
    filterSubjectList,        \* self.filterSubjectList
    batch,                    \* self.aggregatorInputData: images and annos
    built,                    \* whether genAggregatorInput has run
    raised,                   \* the exception that left the parser, or "none"
    \* ---- SQSClient.getMessages on its own: its last call
    fetched,                  \* whether getMessages has been called
    lastDelete,               \* the delete argument
    lastResponse,             \* response["Messages"]
    deleted,                  \* the entries delete_message was called for
    receivedMessages,         \* the second value returned
    receivedMessageIds,       \* the third value returned
    \* ---- stopLoopHandler: what it did before sys.exit(0)
    saveResponse,             \* the answer to "Save aggregation results?"
    handlerSaves,             \* save() calls made by the handler
    \* ---- loop(): its no-progress branches
    statusChecks,             \* checkNumFinished() calls made there by this loop()
    loopCalls,                \* what loop() called after the aggregate() of this cycle
    \* ---- SQSMessageParser: its construction and the box size of one subject
    kwargs,                   \* the keyword arguments of SQSMessageParser(...)
    markWidth,                \* self.markWidth
    markHeight,               \* self.markHeight
    sizeMetaDatumName,        \* self.sizeMetaDatumName
    widthMetaDatumName,       \* self.widthMetaDatumName
    heightMetaDatumName,      \* self.heightMetaDatumName
    markScaleFactor,          \* self.markScaleFactor
    subject,                  \* the subject of one classification
    boxSize,                  \* <<extractBoxWidths(subject), extractBoxHeights(subject)>>
    dimStep,                  \* "args", "constructed" or "extracted"
    \* ---- one SQSMessageParser fed with the messages of a stream
    stream,                   \* the messages the source delivers, in fetch order
    taken,                    \* how many of them were handed to processMessages
    messageBatch              \* the argument of the latest processMessages call

config == <<offlineMode, deleteMessagesFromQueue, saveIntermittently, scenario>>
orchVars == <<config, stopOnExhaustion, allUniqueMessages, pc, task, n_loop, retries,
              suspended, subAggregators, checkpoint>>
parserVars == <<allClassificationIds, processedClassifications, aggregatorInputData>>
queueVars == <<queue, nextId, badSent>>
clientVars == <<allMessages, parsedCount, file, fileChanged, batchSize>>
clientHist == <<returned, lastReturn, called, updated>>
cycleHist == <<aggregateResult, exhaustion, cycleParsed, cycleFailed, cycleLoads,
               cycleEstimates, lastInput, lastEligible, seenBefore, inputHist,
               loopSaves, signals>>

dedupVars == <<origList, dedupInput, result, dstep>>
rowVars == <<classificationsFrame, processed, table, filterSubjectList, batch, built,
             raised>>
liveHist == <<fetched, lastDelete, lastResponse, deleted, receivedMessages,
              receivedMessageIds>>
stopHist == <<saveResponse, handlerSaves>>
retryHist == <<statusChecks, loopCalls>>
dimVars == <<kwargs, markWidth, markHeight, sizeMetaDatumName, widthMetaDatumName,
             heightMetaDatumName, markScaleFactor, subject, boxSize, dimStep>>
feedVars == <<stream, taken, messageBatch>>
unitVars == <<dedupVars, dimVars, feedVars>>
sideVars == <<unitVars, rowVars, liveHist, stopHist, retryHist>>

vars == <<orchVars, parserVars, queueVars, clientVars, clientHist, cycleHist, sideVars>>

---------------------------------------------------------------------------
(* Bounds of the model *)
NumTasks == 2           \* len(taskLabels)
MaxId == 3              \* classification ids the outside world produces in a short run
MaxSignals == 1         \* SIGINTs delivered in a short run
MaxLoaded == 2          \* records in the dump when the offline client is built
MaxAppend == 1          \* records appended to the dump afterwards
LongIds == 11           \* classification ids the outside world produces in a long run
ClientLoaded == 4       \* records in the dump of a client exercised alone
ClientAppend == 2       \* records appended to that dump afterwards
MaxBatchArg == 3        \* largest batchSize argument passed to getMessages
messageBatchSize == 3   \* SQSAggregator(messageBatchSize=...)

(* Constants of the program *)
MaxNumberOfMessages == 10
RandLow == 40
RandHigh == 60
MaxRetries == 3
SaveEvery == 10

Tasks == 1..NumTasks

Min(a, b) == IF a < b THEN a ELSE b

\* A raw message: its classification_id and whether its classification payload
\* is present and passes subjectMetadataFilter.
Message(n, k) == [classification_id |-> n, kind |-> k]

Ids(s) == {s[i].classification_id : i \in 1..Len(s)}

Range(s) == {s[i] : i \in 1..Len(s)}

RECURSIVE SortedById(_)
\* A list of the messages of a set, by classification_id (set of UniqueMessage -> list).
SortedById(S) ==
    IF S = {} THEN <<>>
    ELSE LET m == CHOOSE x \in S : \A y \in S : x.classification_id <= y.classification_id
         IN <<m>> \o SortedById(S \ {m})


---------------------------------------------------------------------------
(* SQSClient.py: UniqueMessage and deduplicate *)

\* Identity by the whole record instead.
UniqueKey_WholeRecord(m) == m

\* UniqueMessage.__eq__ / __hash__: identity is the classification_id alone.
UniqueKey(m) == m.classification_id

\* set([UniqueMessage(m) for m in messageList]): adding an element equal to one
\* already in the set keeps the one already there, so each identity is
\* represented by its first occurrence.
UniqueSet(messageList) ==
    {messageList[i] : i \in {k \in 1..Len(messageList) :
        \A j \in 1..(k - 1) : UniqueKey(messageList[j]) # UniqueKey(messageList[k])}}

\* SQSClient.deduplicate
deduplicate(messageList) == SortedById(UniqueSet(messageList))

---------------------------------------------------------------------------
(* SQSClient.getMessages against the live queue *)

\* A queue entry: the message, and whether its body still matches MD5OfBody.
Entry(n, k, ok) == [classification_id |-> n, kind |-> k, md5ok |-> ok]

\* The responses receive_message may give: up to MaxNumberOfMessages of the
\* queued messages, or none at all.
Responses == {S \in SUBSET queue : Cardinality(S) <= MaxNumberOfMessages}

\* Mutant of Verified: the checksum is not looked at.
Verified_Unchecked(response) == response

\* The entries whose recomputed checksum equals the transport checksum.
Verified(response) == {e \in response : e.md5ok}

\* receivedMessages, the second value: one element per verified entry, in the
\* order of the response.
ReceivedMessages(response) ==
    SortedById({Message(e.classification_id, e.kind) : e \in Verified(response)})

\* receivedMessageIds, the third value.
ReceivedMessageIds(response) ==
    [i \in 1..Len(ReceivedMessages(response)) |->
        ReceivedMessages(response)[i].classification_id]

\* messages, the first value getMessages returns.
LiveMessages(response) == deduplicate(ReceivedMessages(response))

\* The entries getMessages deletes from the queue.
Acknowledged(response, delete) == IF delete THEN Verified(response) ELSE {}

SQSClient_getMessages(response, delete) ==
    /\ lastReturn' = LiveMessages(response)
    /\ queue' = queue \ Acknowledged(response, delete)
    /\ UNCHANGED <<nextId, badSent>>

\* The outside world puts a new classification on the queue.  The queue is read
\* by getMessages alone, so an arrival is taken at the latest point where it
\* still counts: right before a fetch.
Send ==
    /\ ~offlineMode
    /\ pc = "accumulate"
    /\ Len(allUniqueMessages) < messageBatchSize
    /\ nextId <= scenario.ids
    /\ Cardinality(queue) < scenario.queue
    /\ \E k \in {"good", "filtered"}, ok \in BOOLEAN :
         /\ (k = "good" /\ ok) \/ badSent < scenario.bad
         /\ queue' = queue \cup {Entry(nextId, k, ok)}
         /\ badSent' = IF k = "good" /\ ok THEN badSent ELSE badSent + 1
    /\ nextId' = nextId + 1
    /\ UNCHANGED <<sideVars, orchVars, parserVars, clientVars, clientHist, cycleHist>>

---------------------------------------------------------------------------
(* SQSOfflineClient *)

\* The slice messageIds[parsedCount : parsedCount + b] of allMessages.
OfflineSlice(b) ==
    SubSeq(allMessages, parsedCount + 1, Min(parsedCount + b, Len(allMessages)))

\* Mutant of CursorAdvance: the cursor moves one record too far.
CursorAdvance_OneMore(b) == b + 1

\* How far one call moves the cursor: self.parsedCount += batchSize
CursorAdvance(b) == b

\* Mutant of HasUnread: the cursor is not compared with the end of the list.
HasUnread_Always == TRUE

\* if self.parsedCount < maxCount
HasUnread == parsedCount < Len(allMessages)

\* SQSOfflineClient.getMessages(batchSize=b), b already drawn when None was passed.
SQSOfflineClient_getMessages(b) ==
    /\ IF HasUnread
       THEN /\ lastReturn' = OfflineSlice(b)
            /\ parsedCount' = parsedCount + CursorAdvance(b)
       ELSE /\ lastReturn' = <<>>
            /\ UNCHANGED parsedCount
    /\ returned' = returned \o [i \in 1..Len(lastReturn') |-> lastReturn'[i].classification_id]
    /\ called' = TRUE
    /\ UNCHANGED <<allMessages, file, fileChanged, batchSize, updated>>

\* The batch sizes a call may use: the argument, or randint(40, 60) for None.
BatchSizes == IF batchSize = 0 THEN RandLow..(RandHigh - 1) ELSE {batchSize}

\* Mutant of NewRecords: every re-read record counts as new.
NewRecords_All == file

\* The records of the re-read files whose classification_id is not loaded yet.
NewRecords == SelectSeq(file, LAMBDA m : m.classification_id \notin Ids(allMessages))

\* update() ends in "return messages", a name that is bound only inside
\* "if any(update)": when no file has changed the call raises
\* UnboundLocalError, after having changed nothing.
UpdateRaises == ~fileChanged

\* SQSOfflineClient.update
SQSOfflineClient_update ==
    /\ IF fileChanged
       THEN /\ allMessages' = allMessages \o NewRecords
            /\ fileChanged' = FALSE
       ELSE UNCHANGED <<allMessages, fileChanged>>
    /\ updated' = TRUE
    /\ UNCHANGED <<parsedCount, file, batchSize, returned, lastReturn, called>>

\* The outside world appends a record to the dump file.  The file is read by
\* update() alone, so the append is taken right before loop() calls it.
FileAppend ==
    /\ offlineMode
    /\ pc = "noprogress"
    /\ ~stopOnExhaustion
    /\ nextId <= scenario.ids
    /\ Len(file) < MaxLoaded + MaxAppend
    /\ \E k \in {"good", "filtered"} :
         /\ k = "good" \/ badSent < scenario.bad
         /\ file' = Append(file, Message(nextId, k))
         /\ badSent' = IF k = "good" THEN badSent ELSE badSent + 1
    /\ fileChanged' = TRUE
    /\ nextId' = nextId + 1
    /\ UNCHANGED <<sideVars, orchVars, parserVars, queue, allMessages, parsedCount, batchSize,
                   clientHist, cycleHist>>


---------------------------------------------------------------------------
(* SQSMessageParser, the parser of task t *)

NoTable == [present |-> FALSE, rows |-> {}]

\* Mutant of IsNew: the test against the ids already seen is lost.
IsNew_NoTest(t, m) == TRUE

\* message["classification_id"] not in self.allClassificationIds
IsNew(t, m) == m.classification_id \notin allClassificationIds[t]

\* The records extractClassifications keeps: not seen by this parser, accepted by
\* subjectMetadataFilter, and with a classification payload that is not empty.
Eligible(t, uniqueMessages) ==
    {uniqueMessages[i].classification_id : i \in
        {k \in 1..Len(uniqueMessages) :
            IsNew(t, uniqueMessages[k]) /\ uniqueMessages[k].kind = "good"}}

\* Mutant of SeenAfter: allClassificationIds is one set shared by all the parsers
\* (a class attribute instead of an instance attribute).
SeenAfter_Shared(t, uniqueMessages) ==
    [u \in Tasks |-> allClassificationIds[u] \cup Ids(uniqueMessages)]

\* self.allClassificationIds.update(ids of uniqueMessages), of parser t only.
SeenAfter(t, uniqueMessages) ==
    [allClassificationIds EXCEPT ![t] = @ \cup Ids(uniqueMessages)]

\* processClassifications: the new rows joined to the table, one row per id.
TableAfter(t, rows) ==
    [present |-> TRUE, rows |-> processedClassifications[t].rows \cup rows]

\* SQSMessageParser.processMessages(uniqueMessages); ok is its return value.
processMessages(t, uniqueMessages, ok) ==
    /\ ok = (Eligible(t, uniqueMessages) # {})
    /\ allClassificationIds' = SeenAfter(t, uniqueMessages)
    /\ IF ok
       THEN /\ processedClassifications' =
                  [processedClassifications EXCEPT ![t] = TableAfter(t, Eligible(t, uniqueMessages))]
            /\ aggregatorInputData' =
                  [aggregatorInputData EXCEPT ![t] = processedClassifications'[t].rows]
       ELSE UNCHANGED <<processedClassifications, aggregatorInputData>>
    /\ lastInput' = uniqueMessages
    /\ lastEligible' = [lastEligible EXCEPT ![t] = Eligible(t, uniqueMessages)]
    /\ seenBefore' = [seenBefore EXCEPT ![t] = inputHist[t]]
    /\ inputHist' = [inputHist EXCEPT ![t] = @ \cup Ids(uniqueMessages)]

\* SQSMessageParser.clearProcessedClassifications
clearProcessedClassifications(t) ==
    processedClassifications' = [processedClassifications EXCEPT ![t] = NoTable]

---------------------------------------------------------------------------
(* SQSAggregator *)

Running == {"loop", "accumulate", "submit", "load", "estimate", "clear", "finish",
            "save", "purge", "noprogress"}

\* Where a frame of loop() stands: inside its call of aggregate(), or between two.
Position(p) ==
    IF p \in {"accumulate", "submit", "load", "estimate", "clear", "finish"}
    THEN "cycle" ELSE "between"

\* What save() persists: the state of every task's engine.
Snapshot == [written |-> TRUE, engines |-> subAggregators]

\* Mutant of NoBatch: the negation of the accumulation result is lost.
NoBatch_NotDropped(accumulated, buffer) == accumulated /\ Len(buffer) = 0

\* Mutant of NoBatch: a failed accumulation alone ends the call.
NoBatch_AnyExhaustion(accumulated, buffer) == ~accumulated

\* if not self.accumulateMessages() and len(self.allUniqueMessages) == 0
NoBatch(accumulated, buffer) == ~accumulated /\ Len(buffer) = 0

\* accumulateMessages() met an empty fetch and returned False; aggregate() goes on.
AfterExhaustion ==
    /\ exhaustion' = IF Len(allUniqueMessages) = 0 THEN "empty" ELSE "partial"
    /\ IF NoBatch(FALSE, allUniqueMessages)
       THEN pc' = "noprogress" /\ aggregateResult' = "nobatch"
       ELSE pc' = "submit" /\ UNCHANGED aggregateResult
    /\ UNCHANGED allUniqueMessages

\* loop(): the call of aggregate() at the head of the while loop.
LoopIter ==
    /\ pc = "loop"
    /\ pc' = "accumulate"
    /\ task' = 1
    /\ aggregateResult' = "running"
    /\ exhaustion' = "none"
    /\ cycleParsed' = {}
    /\ cycleFailed' = FALSE
    /\ cycleLoads' = {}
    /\ cycleEstimates' = {}
    /\ loopSaves' = 0
    /\ loopCalls' = <<>>
    /\ UNCHANGED <<unitVars, rowVars, liveHist, stopHist, statusChecks, config,
                   stopOnExhaustion, allUniqueMessages, n_loop, retries, suspended,
                   subAggregators, checkpoint, parserVars, queueVars, clientVars,
                   clientHist, lastInput, lastEligible, seenBefore, inputHist, signals>>

\* Mutant of BatchIncomplete: a buffer of exactly one batch is topped up again.
BatchIncomplete_OneMore(buffer) == Len(buffer) <= messageBatchSize

\* while len(self.allUniqueMessages) < self.messageBatchSize
BatchIncomplete(buffer) == Len(buffer) < messageBatchSize

\* accumulateMessages(): one pass of its while loop, live source.
AccumulateLive ==
    /\ pc = "accumulate"
    /\ ~offlineMode
    /\ BatchIncomplete(allUniqueMessages)
    /\ \E response \in Responses :
         SQSClient_getMessages(response, deleteMessagesFromQueue)
    /\ IF Len(lastReturn') = 0
       THEN AfterExhaustion
       ELSE /\ allUniqueMessages' = allUniqueMessages \o lastReturn'
            /\ UNCHANGED <<pc, aggregateResult, exhaustion>>
    /\ UNCHANGED <<sideVars, config,
                   stopOnExhaustion, task, n_loop, retries, suspended,
                   subAggregators, checkpoint, parserVars, clientVars,
                   returned, called, updated,
                   cycleParsed, cycleFailed, cycleLoads, cycleEstimates, lastInput,
                   lastEligible, seenBefore, inputHist, loopSaves, signals>>

\* accumulateMessages(): one pass of its while loop, offline source.
AccumulateOffline ==
    /\ pc = "accumulate"
    /\ offlineMode
    /\ BatchIncomplete(allUniqueMessages)
    /\ \E b \in BatchSizes : SQSOfflineClient_getMessages(b)
    /\ IF Len(lastReturn') = 0
       THEN AfterExhaustion
       ELSE /\ allUniqueMessages' = allUniqueMessages \o lastReturn'
            /\ UNCHANGED <<pc, aggregateResult, exhaustion>>
    /\ UNCHANGED <<sideVars, config,
                   stopOnExhaustion, task, n_loop, retries, suspended,
                   subAggregators, checkpoint, parserVars, queueVars,
                   cycleParsed, cycleFailed, cycleLoads, cycleEstimates, lastInput,
                   lastEligible, seenBefore, inputHist, loopSaves, signals>>

\* accumulateMessages(): the buffer holds a batch; deduplicate it in live mode
\* and return True.
AccumulateDone ==
    /\ pc = "accumulate"
    /\ ~BatchIncomplete(allUniqueMessages)
    /\ allUniqueMessages' = IF offlineMode THEN allUniqueMessages
                            ELSE deduplicate(allUniqueMessages)
    /\ pc' = "submit"
    /\ UNCHANGED <<sideVars, config,
                   stopOnExhaustion, task, n_loop, retries, suspended,
                   subAggregators, checkpoint, parserVars, queueVars, clientVars,
                   clientHist, cycleHist>>

\* aggregate(): sqsMessageParser.processMessages of the current task.
Submit ==
    /\ pc = "submit"
    /\ \E ok \in BOOLEAN :
         /\ processMessages(task, allUniqueMessages, ok)
         /\ cycleParsed' = cycleParsed \cup {task}
         /\ IF ok
            THEN pc' = "load" /\ UNCHANGED <<aggregateResult, cycleFailed>>
            ELSE pc' = "noprogress" /\ aggregateResult' = "aborted" /\ cycleFailed' = TRUE
    /\ UNCHANGED <<sideVars, config,
                   stopOnExhaustion, allUniqueMessages, task, n_loop, retries,
                   suspended, subAggregators, checkpoint, queueVars, clientVars,
                   clientHist, exhaustion, cycleLoads, cycleEstimates, loopSaves,
                   signals>>

\* aggregate(): aggregator.load(data=aggInput, ...)
Load ==
    /\ pc = "load"
    /\ subAggregators' = [subAggregators EXCEPT
                            ![task].annos = @ \cup aggregatorInputData[task]]
    /\ cycleLoads' = cycleLoads \cup {task}
    /\ pc' = "estimate"
    /\ UNCHANGED <<sideVars, config,
                   stopOnExhaustion, allUniqueMessages, task, n_loop, retries,
                   suspended, checkpoint, parserVars, queueVars, clientVars,
                   clientHist, aggregateResult, exhaustion, cycleParsed, cycleFailed,
                   cycleEstimates, lastInput, lastEligible, seenBefore, inputHist, loopSaves,
                   signals>>

\* aggregate(): aggregator.get_big_bbox_set(); aggregator.estimate_parameters(...)
Estimate ==
    /\ pc = "estimate"
    /\ subAggregators' = [subAggregators EXCEPT
                            ![task].estimated = subAggregators[task].annos]
    /\ cycleEstimates' = cycleEstimates \cup {task}
    /\ pc' = "clear"
    /\ UNCHANGED <<sideVars, config,
                   stopOnExhaustion, allUniqueMessages, task, n_loop, retries,
                   suspended, checkpoint, parserVars, queueVars, clientVars,
                   clientHist, aggregateResult, exhaustion, cycleParsed, cycleFailed,
                   cycleLoads, lastInput, lastEligible, seenBefore, inputHist, loopSaves,
                   signals>>

\* aggregate(): sqsMessageParser.clearProcessedClassifications(), then the next task.
Clear ==
    /\ pc = "clear"
    /\ clearProcessedClassifications(task)
    /\ IF task < NumTasks
       THEN task' = task + 1 /\ pc' = "submit"
       ELSE pc' = "finish" /\ UNCHANGED task
    /\ UNCHANGED <<sideVars, config,
                   stopOnExhaustion, allUniqueMessages, n_loop, retries, suspended,
                   subAggregators, checkpoint, allClassificationIds,
                   aggregatorInputData, queueVars, clientVars, clientHist, cycleHist>>

\* Mutant of BufferAfterSuccess: the buffer is not emptied.
BufferAfterSuccess_Kept(buffer) == buffer

\* What aggregate() leaves in the buffer when it returns True.
BufferAfterSuccess(buffer) == <<>>

\* aggregate(): self.allUniqueMessages = []; return True
Finish ==
    /\ pc = "finish"
    /\ allUniqueMessages' = BufferAfterSuccess(allUniqueMessages)
    /\ aggregateResult' = "ok"
    /\ pc' = "save"
    /\ UNCHANGED <<sideVars, config,
                   stopOnExhaustion, task, n_loop, retries, suspended,
                   subAggregators, checkpoint, parserVars, queueVars, clientVars,
                   clientHist, exhaustion, cycleParsed, cycleFailed, cycleLoads,
                   cycleEstimates, lastInput, lastEligible, seenBefore, inputHist, loopSaves,
                   signals>>

\* Mutant of ShouldSave: the cycle is counted from 1.
ShouldSave_FromOne(n) == saveIntermittently /\ (n + 1) % SaveEvery = 0

\* if self.saveIntermittently and not (n_loop % 10)
ShouldSave(n) == saveIntermittently /\ n % SaveEvery = 0

\* loop(): the intermittent save after a successful aggregate().
LoopSave ==
    /\ pc = "save"
    /\ IF ShouldSave(n_loop)
       THEN /\ checkpoint' = Snapshot
            /\ loopSaves' = loopSaves + 1
            /\ loopCalls' = Append(loopCalls, "save")
       ELSE UNCHANGED <<checkpoint, loopSaves, loopCalls>>
    /\ pc' = "purge"
    /\ UNCHANGED <<unitVars, rowVars, liveHist, stopHist, statusChecks, config,
                   stopOnExhaustion, allUniqueMessages, task, n_loop, retries,
                   suspended, subAggregators, parserVars, queueVars, clientVars,
                   clientHist, aggregateResult, exhaustion, cycleParsed, cycleFailed,
                   cycleLoads, cycleEstimates, lastInput, lastEligible, seenBefore, inputHist,
                   signals>>

\* Mutant of RetriesAfterSuccess: a successful cycle resets the counter.
RetriesAfterSuccess_Reset(r) == 0

\* The branch of loop() for a successful aggregate() does not assign retries.
RetriesAfterSuccess(r) == r

\* loop(): self.purgeBBoxSetFile(); n_loop += 1
LoopPurge ==
    /\ pc = "purge"
    /\ retries' = RetriesAfterSuccess(retries)
    /\ loopCalls' = Append(loopCalls, "purgeBBoxSetFile")
    /\ n_loop' = n_loop + 1
    /\ pc' = "loop"
    /\ UNCHANGED <<unitVars, rowVars, liveHist, stopHist, statusChecks, config,
                   stopOnExhaustion, allUniqueMessages, task, suspended,
                   subAggregators, checkpoint, parserVars, queueVars, clientVars,
                   clientHist, cycleHist>>

\* loop(): elif not stopOnExhaustion: wait (offline: sleep, update) and continue
LoopWait ==
    /\ pc = "noprogress"
    /\ ~stopOnExhaustion
    /\ IF offlineMode /\ UpdateRaises
       THEN \* the exception leaves loop() and every frame below it
            /\ pc' = "crashed"
            /\ allUniqueMessages' = <<>>
            /\ task' = 1
            /\ n_loop' = 0
            /\ retries' = 0
            /\ suspended' = <<>>
            /\ subAggregators' = [t \in Tasks |-> [annos |-> {}, estimated |-> {}]]
            /\ allClassificationIds' = [t \in Tasks |-> {}]
            /\ processedClassifications' = [t \in Tasks |-> NoTable]
            /\ aggregatorInputData' = [t \in Tasks |-> {}]
            /\ allMessages' = <<>>
            /\ parsedCount' = 0
            /\ UNCHANGED <<file, fileChanged, batchSize, clientHist>>
       ELSE /\ IF offlineMode
               THEN SQSOfflineClient_update
               ELSE UNCHANGED <<clientVars, clientHist>>
            /\ pc' = "loop"
            /\ UNCHANGED <<allUniqueMessages, task, n_loop, retries, suspended,
                           subAggregators, parserVars>>
    /\ UNCHANGED <<sideVars, config, stopOnExhaustion, checkpoint, queueVars,
                   cycleHist>>

\* loop(): elif retries < 3: retries += 1; checkNumFinished()
LoopRetry ==
    /\ pc = "noprogress"
    /\ stopOnExhaustion
    /\ retries < MaxRetries
    /\ retries' = retries + 1
    /\ statusChecks' = statusChecks + 1
    /\ pc' = "loop"
    /\ UNCHANGED <<loopCalls, unitVars, rowVars, liveHist, stopHist, config,
                   stopOnExhaustion, allUniqueMessages, task, n_loop, suspended,
                   subAggregators, checkpoint, parserVars, queueVars, clientVars,
                   clientHist, cycleHist>>

\* loop(): else: checkNumFinished(); break
LoopStop ==
    /\ pc = "noprogress"
    /\ stopOnExhaustion
    /\ retries >= MaxRetries
    /\ statusChecks' = statusChecks + 1
    /\ pc' = "stopped"
    /\ UNCHANGED <<loopCalls, unitVars, rowVars, liveHist, stopHist, config,
                   stopOnExhaustion, allUniqueMessages, task, n_loop, retries,
                   suspended, subAggregators, checkpoint, parserVars, queueVars,
                   clientVars, clientHist, cycleHist>>

\* Mutant of HandlerSaves: save() whatever the answer.
HandlerSaves_Always(answer) == 1

\* stopLoopHandler: if saveResponse == "y": self.save() -- the number of calls.
HandlerSaves(answer) == IF answer = "y" THEN 1 ELSE 0

\* stopLoopHandler: SIGINT, "y" to the first prompt; saveResponse is the second
\* answer.  sys.exit(0) ends the process: what it held in memory is gone, what
\* save() wrote and what the queue and the dump file hold stay.
StopConfirmed ==
    /\ pc \in Running
    /\ signals < scenario.signals
    /\ signals' = signals + 1
    /\ \E answer \in {"y", "n"} :
         /\ saveResponse' = answer
         /\ handlerSaves' = handlerSaves + HandlerSaves(answer)
         /\ checkpoint' = IF HandlerSaves(answer) = 1 THEN Snapshot ELSE checkpoint
    /\ pc' = "exited"
    /\ allUniqueMessages' = <<>>
    /\ task' = 1
    /\ n_loop' = 0
    /\ retries' = 0
    /\ suspended' = <<>>
    /\ subAggregators' = [t \in Tasks |-> [annos |-> {}, estimated |-> {}]]
    /\ allClassificationIds' = [t \in Tasks |-> {}]
    /\ processedClassifications' = [t \in Tasks |-> NoTable]
    /\ aggregatorInputData' = [t \in Tasks |-> {}]
    /\ allMessages' = <<>>
    /\ parsedCount' = 0
    /\ statusChecks' = 0
    /\ UNCHANGED <<loopCalls, unitVars, rowVars, liveHist, config,
                   stopOnExhaustion, queueVars, file, fileChanged, batchSize,
                   clientHist, aggregateResult, exhaustion, cycleParsed, cycleFailed,
                   cycleLoads, cycleEstimates, lastInput, lastEligible, seenBefore, inputHist,
                   loopSaves>>

\* stopLoopHandler: SIGINT, "n" to the first prompt: self.loop() is called from
\* inside the handler, on top of the interrupted frame, with its default
\* arguments.  The new frame has made no call of aggregate() yet.
StopDeclined ==
    /\ pc \in Running
    /\ signals < scenario.signals
    /\ signals' = signals + 1
    /\ suspended' = Append(suspended, Position(pc))
    /\ pc' = "loop"
    /\ retries' = 0
    /\ n_loop' = 0
    /\ stopOnExhaustion' = FALSE
    /\ aggregateResult' = "none"
    /\ exhaustion' = "none"
    /\ cycleParsed' = {}
    /\ cycleFailed' = FALSE
    /\ cycleLoads' = {}
    /\ cycleEstimates' = {}
    /\ loopSaves' = 0
    /\ statusChecks' = 0
    /\ loopCalls' = <<>>
    /\ UNCHANGED <<unitVars, rowVars, liveHist, stopHist, config,
                   allUniqueMessages, task, subAggregators, checkpoint, parserVars,
                   queueVars, clientVars, clientHist, lastInput, lastEligible,
                   seenBefore, inputHist>>

---------------------------------------------------------------------------
(* The orchestrator with its source *)

\* Python's None; a value v that is present is carried as <<v>>.
None == <<>>

\* No parser is constructed on its own.
NoDims ==
    /\ kwargs = None
    /\ markWidth = None
    /\ markHeight = None
    /\ sizeMetaDatumName = None
    /\ widthMetaDatumName = None
    /\ heightMetaDatumName = None
    /\ markScaleFactor = 1
    /\ subject = None
    /\ boxSize = None
    /\ dimStep = "args"

\* deduplicate and the row-by-row parser are not exercised on their own.
NoDedup ==
    /\ origList = <<>>
    /\ dedupInput = <<>>
    /\ result = <<>>
    /\ dstep = "input"

\* No SIGINT has been handled.
NoStop ==
    /\ saveResponse = "none"
    /\ handlerSaves = 0
    /\ statusChecks = 0
    /\ loopCalls = <<>>

NoFetch ==
    /\ fetched = FALSE
    /\ lastDelete = FALSE
    /\ lastResponse = {}
    /\ deleted = {}
    /\ receivedMessages = <<>>
    /\ receivedMessageIds = <<>>

NoRows ==
    /\ classificationsFrame = <<>>
    /\ processed = FALSE
    /\ table = <<>>
    /\ filterSubjectList = {}
    /\ batch = [images |-> {}, annos |-> <<>>]
    /\ built = FALSE
    /\ raised = "none"

\* No stream of messages is fed to a parser on its own.
NoFeed ==
    /\ stream = <<>>
    /\ taken = 0
    /\ messageBatch = <<>>

\* The dumps the offline client may be built on: ids 1..n, of which the ones in
\* bad are rejected by subjectMetadataFilter.
Dump(n, bad) ==
    [i \in 1..n |-> Message(i, IF i \in bad THEN "filtered" ELSE "good")]

\* A short run in which the outside world does everything it can, and a long
\* run of well-formed messages arriving one at a time on the live queue.
ShortRun == [ids |-> MaxId, queue |-> 2, bad |-> 1, signals |-> MaxSignals]
LongRun == [ids |-> LongIds, queue |-> 1, bad |-> 0, signals |-> 0]

\* A run of the live queue in which a full batch of messages may be rejected
\* while one more message waits on the queue.
ProgressRun == [ids |-> messageBatchSize + 1, queue |-> 2,
                bad |-> messageBatchSize, signals |-> 0]

\* The state after SQSAggregator.__init__, before loop() is called, in a run
\* of one of the given kinds on the live queue or a short run on a dump.
InitRun(runs) ==
    /\ offlineMode \in BOOLEAN
    /\ scenario \in (IF offlineMode THEN {ShortRun} ELSE runs)
    /\ deleteMessagesFromQueue \in
          (IF offlineMode \/ scenario \in {LongRun, ProgressRun} THEN {TRUE} ELSE BOOLEAN)
    /\ saveIntermittently \in (IF scenario = LongRun THEN BOOLEAN ELSE {TRUE})
    /\ stopOnExhaustion \in BOOLEAN
    /\ allUniqueMessages = <<>>
    /\ pc = "loop"
    /\ task = 1
    /\ n_loop = 0
    /\ retries = 0
    /\ suspended = <<>>
    /\ subAggregators = [t \in Tasks |-> [annos |-> {}, estimated |-> {}]]
    /\ checkpoint = [written |-> FALSE, engines |-> subAggregators]
    /\ allClassificationIds = [t \in Tasks |-> {}]
    /\ processedClassifications = [t \in Tasks |-> NoTable]
    /\ aggregatorInputData = [t \in Tasks |-> {}]
    /\ queue = {}
    /\ \E n \in 0..MaxLoaded, bad \in SUBSET (1..MaxLoaded) :
         /\ bad \subseteq 1..n
         /\ Cardinality(bad) <= scenario.bad
         /\ offlineMode \/ n = 0
         /\ allMessages = Dump(n, bad)
         /\ file = Dump(n, bad)
         /\ nextId = n + 1
         /\ badSent = Cardinality(bad)
    /\ parsedCount = 0
    /\ fileChanged = FALSE
    /\ batchSize = 0
    /\ returned = <<>>
    /\ lastReturn = <<>>
    /\ called = FALSE
    /\ updated = FALSE
    /\ aggregateResult = "none"
    /\ exhaustion = "none"
    /\ cycleParsed = {}
    /\ cycleFailed = FALSE
    /\ cycleLoads = {}
    /\ cycleEstimates = {}
    /\ lastInput = <<>>
    /\ lastEligible = [t \in Tasks |-> {}]
    /\ seenBefore = [t \in Tasks |-> {}]
    /\ inputHist = [t \in Tasks |-> {}]
    /\ loopSaves = 0
    /\ signals = 0
    /\ NoDedup
    /\ NoDims
    /\ NoFeed
    /\ NoRows
    /\ NoFetch
    /\ NoStop

Init == InitRun({ShortRun, LongRun})

Next ==
    \/ LoopIter
    \/ AccumulateLive
    \/ AccumulateOffline
    \/ AccumulateDone
    \/ Submit
    \/ Load
    \/ Estimate
    \/ Clear
    \/ Finish
    \/ LoopSave
    \/ LoopPurge
    \/ LoopWait
    \/ LoopRetry
    \/ LoopStop
    \/ StopConfirmed
    \/ StopDeclined
    \/ Send
    \/ FileAppend

Spec == Init /\ [][Next]_vars


---------------------------------------------------------------------------
(* Claims about the orchestrator, checked under Spec *)

\* C1: in a cycle of aggregate() in which some task's parser reports no eligible
\* data, no task's engine receives load or estimate_parameters.
C1_FailedCycleUpdatesNoEngine ==
    cycleFailed => (cycleLoads = {} /\ cycleEstimates = {})

\* A cycle aborted by a parser, after an earlier successful cycle, with the
\* buffer kept.
C1_Witness ==
    /\ cycleFailed
    /\ pc = "noprogress"
    /\ n_loop >= 1
    /\ allUniqueMessages # <<>>
    /\ \A t \in Tasks : subAggregators[t].annos # {}

\* C2: no checkpoint is taken while a cycle is partly applied: in every persisted
\* snapshot every task's engine has incorporated the same batches.
C2_NoPartialCheckpoint ==
    checkpoint.written =>
        \A t, u \in Tasks :
            /\ checkpoint.engines[t].annos = checkpoint.engines[u].annos
            /\ checkpoint.engines[t].estimated = checkpoint.engines[u].estimated

\* C3: an id that was in the input of an earlier processMessages call of a parser
\* is not among the records a later call of that parser accepts.
C3_NoReacceptance ==
    \A t \in Tasks : lastEligible[t] \cap seenBefore[t] = {}

\* A call that accepted a record while its input also held a redelivered id.
C3_Witness ==
    /\ pc = "load"
    /\ lastEligible[task] # {}
    /\ Ids(lastInput) \cap seenBefore[task] # {}

\* C6 as claimed: with intermittent saving, save() is called once in the
\* successful cycles 10, 20, 30, ... (counted from 1) and in no other cycle.
C6_SavesInCyclesTenTwenty ==
    (saveIntermittently /\ pc = "purge") =>
        (loopSaves = 1 <=> (n_loop + 1) % SaveEvery = 0)

\* C6 as amended: counting the successful cycles of an invocation of loop() from
\* 1, loop() calls save() exactly once in the cycles 1, 11, 21, ... (n_loop a
\* multiple of 10) and not at all in any other cycle, successful or not.
C6_SavesInCyclesOneEleven ==
    saveIntermittently =>
        /\ pc = "purge" => loopSaves = (IF n_loop % SaveEvery = 0 THEN 1 ELSE 0)
        /\ pc \in {"accumulate", "submit", "load", "estimate", "clear", "finish",
                   "save", "noprogress"} => loopSaves = 0

\* The eleventh successful cycle has been saved.
C6_Witness ==
    /\ saveIntermittently
    /\ pc = "purge"
    /\ n_loop = SaveEvery
    /\ loopSaves = 1

\* C9: when accumulateMessages meets an empty fetch with a buffer that is not
\* empty and below the batch size, the same aggregate() call hands that buffer
\* to the task parsers.
C9_PartialBufferSubmitted ==
    (exhaustion = "partial" /\ pc \notin {"exited", "crashed"}) =>
        /\ aggregateResult # "nobatch"
        /\ \/ /\ pc = "submit"
              /\ cycleParsed = {}
              /\ allUniqueMessages # <<>>
           \/ /\ 1 \in cycleParsed
              /\ lastInput # <<>>
              /\ Len(lastInput) < messageBatchSize

\* A partial buffer went through every task's parser and engine.
C9_Witness ==
    /\ exhaustion = "partial"
    /\ cycleParsed = Tasks
    /\ aggregateResult = "ok"

\* C10: when the source returns no messages and the buffer is empty, aggregate()
\* returns False, no parser and no engine is invoked, and the buffer stays empty.
C10_NoBatchOnEmptyExhaustion ==
    (exhaustion = "empty" /\ pc \notin {"exited", "crashed"}) =>
        /\ aggregateResult = "nobatch"
        /\ pc \in {"noprogress", "loop", "stopped"}
        /\ allUniqueMessages = <<>>
        /\ cycleParsed = {}
        /\ cycleLoads = {}
        /\ cycleEstimates = {}

\* The source ran dry after an earlier successful cycle.
C10_Witness ==
    /\ exhaustion = "empty"
    /\ pc = "noprogress"
    /\ n_loop >= 1


\* C11: in live mode every buffer handed to the task parsers went through
\* deduplicate, so it holds at most one message per classification_id, for
\* full batches and for partial batches submitted on exhaustion alike.
C11_SubmittedBufferDeduplicated ==
    ~offlineMode =>
        \A i, j \in 1..Len(lastInput) :
            lastInput[i].classification_id = lastInput[j].classification_id => i = j

\* C13: no cycle of aggregate() begins or runs while an earlier cycle is still
\* in progress, suspended part-way through fetch, parse or engine update;
\* also after a stop request was received and declined.
C13_OneCycleAtATime ==
    Position(pc) = "cycle" =>
        \A i \in 1..Len(suspended) : suspended[i] # "cycle"

\* C14: once a stop request has been confirmed the process ends and takes no
\* further step (no fetch in particular); before it ends the handler has
\* called save() exactly once if persisting was confirmed and not at all if
\* it was declined.
C14_ConfirmedStopSavesOnceAndEnds ==
    /\ [](pc = "exited" =>
            /\ saveResponse \in {"y", "n"}
            /\ saveResponse = "y" => (handlerSaves = 1 /\ checkpoint.written)
            /\ saveResponse = "n" => handlerSaves = 0)
    /\ [][pc # "exited"]_vars

\* A stop request was confirmed in the middle of a cycle and persisting was
\* confirmed too.
C14_Witness ==
    /\ pc = "exited"
    /\ signals = 1
    /\ saveResponse = "y"
    /\ handlerSaves = 1
    /\ checkpoint.written
    /\ aggregateResult = "running"

C24_PurgeBeforeSave ==
    \A i \in 1..Len(loopCalls) :
        loopCalls[i] = "save" =>
            \E j \in 1..(i - 1) : loopCalls[j] = "purgeBBoxSetFile"

\* C25: when an aggregate() call returns True the pending buffer is empty and
\* the table of every task's parser is cleared; and a parser's table is
\* cleared (the process still running) only after the engine of its task has
\* received load and estimate_parameters in this cycle, on a batch that holds
\* the rows of that table.
C25_ClearedAfterSuccess ==
    [][/\ (aggregateResult # "ok" /\ aggregateResult' = "ok") =>
            /\ allUniqueMessages' = <<>>
            /\ \A t \in Tasks : ~processedClassifications'[t].present
       /\ \A t \in Tasks :
            (/\ processedClassifications[t].present
             /\ ~processedClassifications'[t].present
             /\ pc' \notin {"exited", "crashed"}) =>
                /\ t \in cycleLoads
                /\ t \in cycleEstimates
                /\ processedClassifications[t].rows \subseteq subAggregators[t].estimated]_vars

\* A second successful cycle has just returned: every engine has estimated
\* and nothing is left in the buffer or in the tables.
C25_Witness ==
    /\ aggregateResult = "ok"
    /\ pc = "save"
    /\ n_loop >= 1
    /\ cycleEstimates = Tasks
    /\ allUniqueMessages = <<>>
    /\ \A t \in Tasks : ~processedClassifications[t].present

\* C28: a stop request that is declined leaves stopOnExhaustion, the retry
\* count and the cycle counter of the loop as they were before the request.
C28_DeclinedStopKeepsState ==
    [][StopDeclined =>
        /\ stopOnExhaustion' = stopOnExhaustion
        /\ retries' = retries
        /\ n_loop' = n_loop]_vars

\* C29: in a loop() with stopOnExhaustion true the retry counter is the
\* number of no-progress cycles of the whole run so far, up to 3, whatever
\* successful cycles came in between, and the loop has stopped exactly when
\* the fourth no-progress cycle has been met.
C29_RetriesNeverReset ==
    (stopOnExhaustion /\ pc \notin {"exited", "crashed"}) =>
        /\ retries = Min(statusChecks, MaxRetries)
        /\ statusChecks <= MaxRetries + 1
        /\ (pc = "stopped") = (statusChecks = MaxRetries + 1)

\* A successful cycle has come after three no-progress cycles and the counter
\* still stands at 3.
C29_Witness ==
    /\ stopOnExhaustion
    /\ pc = "loop"
    /\ aggregateResult = "ok"
    /\ loopCalls # <<>>
    /\ statusChecks = MaxRetries
    /\ retries = MaxRetries

\* The largest number of messages one fetch of the run's source can return:
\* MaxNumberOfMessages on the live queue, the largest np.random.randint(40, 60)
\* on a dump.
LargestFetch == IF offlineMode THEN RandHigh - 1 ELSE MaxNumberOfMessages

\* C31: in every reachable state the pending-message buffer holds fewer than
\* messageBatchSize + P messages, P being the largest number of messages one
\* fetch can return (10 on the live queue, 59 on a dump): no fetch returns
\* more than P messages, and the buffer holds fewer than messageBatchSize
\* messages more than the last fetch returned, through successful cycles,
\* aborted cycles that keep the buffer, and exhaustion.
C31_BufferBounded ==
    /\ Len(lastReturn) <= LargestFetch
    /\ Len(allUniqueMessages) < messageBatchSize + Len(lastReturn)
    /\ Len(allUniqueMessages) < messageBatchSize + LargestFetch

\* A fetch of several messages on top of a buffer one short of a batch: the
\* buffer stands one below the bound that fetch allows.
C31_Witness ==
    /\ pc = "accumulate"
    /\ Len(lastReturn) >= 2
    /\ Len(allUniqueMessages) = messageBatchSize + Len(lastReturn) - 1

---------------------------------------------------------------------------
(* The orchestrator on the live queue, left alone by the operator and with   *)
(* stopOnExhaustion false, under fairness: the loop keeps taking steps, and  *)
(* receive_message does not answer with nothing forever while an intact      *)
(* message is on the queue.                                                  *)

InitProgress ==
    /\ InitRun({ProgressRun})
    /\ ~offlineMode
    /\ ~stopOnExhaustion

NextProgress ==
    \/ LoopIter
    \/ AccumulateLive
    \/ AccumulateDone
    \/ Submit
    \/ Load
    \/ Estimate
    \/ Clear
    \/ Finish
    \/ LoopSave
    \/ LoopPurge
    \/ LoopWait
    \/ Send

\* A fetch that returns a message.  A returned message is deleted from the
\* queue and the messages are finitely many, so none is passed over forever.
Fetch == AccumulateLive /\ lastReturn' # <<>>

SpecProgress ==
    /\ InitProgress
    /\ [][NextProgress]_vars
    /\ WF_vars(NextProgress)
    /\ SF_vars(Fetch)

\* C27: a message on the queue that is intact, passes the metadata filter and
\* has never been seen by the parsers is eventually fetched and loaded into
\* the engine of every task, whatever no-progress cycles came before.
C27_NoProgressNeverBlocks ==
    \A n \in 1..ProgressRun.ids :
        (/\ Entry(n, "good", TRUE) \in queue
         /\ \A t \in Tasks : n \notin allClassificationIds[t])
            ~> (\A t \in Tasks : n \in subAggregators[t].annos)

---------------------------------------------------------------------------
(* SQSOfflineClient exercised alone: getMessages and update in any order,    *)
(* with one batchSize argument per run (0 for None) and a dump file that     *)
(* grows.                                                                    *)

\* The variables of the orchestrator while no orchestrator runs.
NoOrchestrator ==
    /\ deleteMessagesFromQueue = TRUE
    /\ saveIntermittently = TRUE
    /\ scenario = ShortRun
    /\ stopOnExhaustion = FALSE
    /\ allUniqueMessages = <<>>
    /\ pc = "idle"
    /\ task = 1
    /\ n_loop = 0
    /\ retries = 0
    /\ suspended = <<>>
    /\ subAggregators = [t \in Tasks |-> [annos |-> {}, estimated |-> {}]]
    /\ checkpoint = [written |-> FALSE, engines |-> subAggregators]
    /\ allClassificationIds = [t \in Tasks |-> {}]
    /\ processedClassifications = [t \in Tasks |-> NoTable]
    /\ aggregatorInputData = [t \in Tasks |-> {}]
    /\ queue = {}
    /\ badSent = 0
    /\ aggregateResult = "none"
    /\ exhaustion = "none"
    /\ cycleParsed = {}
    /\ cycleFailed = FALSE
    /\ cycleLoads = {}
    /\ cycleEstimates = {}
    /\ lastInput = <<>>
    /\ lastEligible = [t \in Tasks |-> {}]
    /\ seenBefore = [t \in Tasks |-> {}]
    /\ inputHist = [t \in Tasks |-> {}]
    /\ loopSaves = 0
    /\ signals = 0

Idle ==
    /\ offlineMode = TRUE
    /\ NoOrchestrator

\* No offline client is constructed.
NoClient ==
    /\ allMessages = <<>>
    /\ file = <<>>
    /\ nextId = 1
    /\ parsedCount = 0
    /\ fileChanged = FALSE
    /\ batchSize = 0
    /\ returned = <<>>
    /\ lastReturn = <<>>
    /\ called = FALSE
    /\ updated = FALSE

\* SQSOfflineClient.__init__ / loadMessages on a dump of n records.
InitClient ==
    /\ Idle
    /\ NoDedup
    /\ NoDims
    /\ NoFeed
    /\ NoRows
    /\ NoFetch
    /\ NoStop
    /\ \E n \in 0..ClientLoaded :
         /\ allMessages = Dump(n, {})
         /\ file = Dump(n, {})
         /\ nextId = n + 1
    /\ parsedCount = 0
    /\ fileChanged = FALSE
    /\ batchSize \in 0..MaxBatchArg
    /\ returned = <<>>
    /\ lastReturn = <<>>
    /\ called = FALSE
    /\ updated = FALSE

ClientGetMessages ==
    /\ \E b \in BatchSizes : SQSOfflineClient_getMessages(b)
    /\ fetched' = TRUE
    /\ receivedMessages' = lastReturn'
    /\ receivedMessageIds' = [i \in 1..Len(lastReturn') |-> lastReturn'[i].classification_id]
    /\ UNCHANGED <<lastDelete, lastResponse, deleted>>
    /\ UNCHANGED <<unitVars, rowVars, stopHist, retryHist, orchVars, parserVars, queueVars, cycleHist>>

ClientUpdate ==
    /\ SQSOfflineClient_update
    /\ UNCHANGED <<sideVars, orchVars, parserVars, queueVars, cycleHist>>

\* The outside world appends a record to the dump file.
ClientFileAppend ==
    /\ Len(file) < ClientLoaded + ClientAppend
    /\ file' = Append(file, Message(nextId, "good"))
    /\ fileChanged' = TRUE
    /\ nextId' = nextId + 1
    /\ UNCHANGED <<sideVars, orchVars, parserVars, queue, badSent, allMessages, parsedCount,
                   batchSize, clientHist, cycleHist>>

NextClient ==
    \/ ClientGetMessages
    \/ ClientUpdate
    \/ ClientFileAppend

SpecClient == InitClient /\ [][NextClient]_vars

---------------------------------------------------------------------------
(* Claims about SQSOfflineClient, checked under SpecClient *)

\* The ids of the first n loaded records, in load order.
LoadedIds(n) == [i \in 1..n |-> allMessages[i].classification_id]

\* C7: every record update() appends is later returned by getMessages exactly
\* once: the cursor never passes a record that has not been returned.  (A
\* record the cursor has passed is never returned, because getMessages returns
\* records at or after the cursor only and the cursor never moves back.)
C7_CursorPassesNoUnreturnedRecord ==
    \A i \in 1..Len(allMessages) :
        i <= parsedCount =>
            \E j \in 1..Len(returned) : returned[j] = allMessages[i].classification_id

\* C8: with no update() in between, repeated getMessages calls with one batch
\* size k >= 1 return the loaded records once each, in load order, none
\* skipped: what has been returned is the loaded records up to the cursor, a
\* call before the end returns something, and a call returns nothing only when
\* all has been returned.
C8_FixedBatchEnumeratesOnce ==
    (batchSize >= 1 /\ ~updated) =>
        /\ returned = LoadedIds(Min(parsedCount, Len(allMessages)))
        /\ (called /\ parsedCount < Len(allMessages)) => lastReturn # <<>>
        /\ (called /\ lastReturn = <<>>) => returned = LoadedIds(Len(allMessages))

\* Three records read two at a time: the second call returned the last one
\* alone and the third returned nothing.
C8_Witness ==
    /\ batchSize = 2
    /\ ~updated
    /\ Len(allMessages) = 3
    /\ parsedCount = 4
    /\ called
    /\ lastReturn = <<>>
    /\ returned = <<1, 2, 3>>


\* C17: update() appends exactly the re-read records whose classification_id
\* is not among the loaded records, in file order, after the loaded records,
\* which keep their positions; it does not move the cursor; and when no file
\* has changed it changes neither the loaded records nor the cursor.
C17_UpdateAppendsNewRecordsOnly ==
    [][ClientUpdate =>
        /\ parsedCount' = parsedCount
        /\ SubSeq(allMessages', 1, Len(allMessages)) = allMessages
        /\ IF fileChanged
           THEN allMessages' = allMessages \o
                    SelectSeq(file, LAMBDA m :
                        \A i \in 1..Len(allMessages) :
                            allMessages[i].classification_id # m.classification_id)
           ELSE allMessages' = allMessages]_vars

\* After a first read, a record was appended to a full dump and update() put
\* it behind the loaded ones without moving the cursor.
C17_Witness ==
    /\ updated
    /\ ~fileChanged
    /\ Len(allMessages) = ClientLoaded + 1
    /\ file = allMessages
    /\ parsedCount = 2
    /\ returned = <<1, 2>>

---------------------------------------------------------------------------
(* SQSClient exercised alone: messages arrive on the queue and getMessages *)
(* is called with either value of delete.                                  *)

LiveIds == 2            \* classification ids of the messages sent
LiveQueue == 2          \* messages on the queue at one time

InitLive ==
    /\ offlineMode = FALSE
    /\ NoOrchestrator
    /\ NoClient
    /\ NoDedup
    /\ NoDims
    /\ NoFeed
    /\ NoRows
    /\ NoFetch
    /\ NoStop

\* The outside world puts a message on the queue; in transit its body may be
\* damaged, so that it no longer matches MD5OfBody.
LiveSend ==
    /\ Cardinality(queue) < LiveQueue
    /\ \E n \in 1..LiveIds, k \in {"good", "filtered"}, ok \in BOOLEAN :
         queue' = queue \cup {Entry(n, k, ok)}
    /\ UNCHANGED <<nextId, badSent>>
    /\ UNCHANGED <<sideVars, orchVars, parserVars, clientVars, clientHist, cycleHist>>

\* SQSClient.getMessages(delete)
LiveGetMessages ==
    /\ \E response \in Responses, delete \in BOOLEAN :
         /\ SQSClient_getMessages(response, delete)
         /\ lastDelete' = delete
         /\ lastResponse' = response
         /\ receivedMessages' = ReceivedMessages(response)
         /\ receivedMessageIds' = ReceivedMessageIds(response)
    /\ fetched' = TRUE
    /\ deleted' = queue \ queue'
    /\ UNCHANGED <<unitVars, rowVars, stopHist, retryHist, orchVars, parserVars, clientVars, returned,
                   called, updated, cycleHist>>

NextLive ==
    \/ LiveSend
    \/ LiveGetMessages

SpecLive == InitLive /\ [][NextLive]_vars

\* C12: getMessages deletes a received message exactly when its recomputed
\* checksum equals the transport checksum and delete is true; what it returns
\* is made of the verified messages alone (a mismatched message enters none of
\* the three collections and stays on the queue), and with delete false
\* nothing is deleted.
C12_AcknowledgedIffVerifiedAndDelete ==
    (fetched /\ ~offlineMode) =>
        /\ deleted = {e \in lastResponse : e.md5ok /\ lastDelete}
        /\ \A e \in lastResponse : ~e.md5ok => e \notin deleted
        /\ ~lastDelete => deleted = {}
        /\ Range(receivedMessages) =
              {Message(e.classification_id, e.kind) : e \in {v \in lastResponse : v.md5ok}}
        /\ Len(receivedMessages) = Cardinality(Range(receivedMessages))
        /\ receivedMessageIds =
              [i \in 1..Len(receivedMessages) |-> receivedMessages[i].classification_id]
        /\ Range(lastReturn) \subseteq Range(receivedMessages)
        /\ Ids(lastReturn) = Ids(receivedMessages)

\* One call with delete true received a damaged and an intact message: the
\* intact one was returned and deleted, the damaged one is still queued.
C12_Witness ==
    /\ fetched
    /\ lastDelete
    /\ lastResponse = {Entry(1, "good", FALSE), Entry(2, "good", TRUE)}
    /\ deleted = {Entry(2, "good", TRUE)}
    /\ queue = {Entry(1, "good", FALSE)}
    /\ lastReturn = <<Message(2, "good")>>
    /\ receivedMessageIds = <<2>>

---------------------------------------------------------------------------
(* Either source exercised alone: the offline client or the live one. *)

InitSources == InitClient \/ InitLive

NextSources ==
    \/ offlineMode /\ NextClient
    \/ ~offlineMode /\ NextLive

SpecSources == InitSources /\ [][NextSources]_vars

\* C16: a live getMessages whose response holds no message, and an offline
\* getMessages called with the cursor at or past the end of the loaded
\* records, both return three empty collections; the offline call leaves the
\* cursor and the loaded records as they were.
C16_ExhaustionIsThreeEmptyCollections ==
    [][/\ (~offlineMode /\ LiveGetMessages /\ lastResponse' = {}) =>
            /\ lastReturn' = <<>>
            /\ receivedMessages' = <<>>
            /\ receivedMessageIds' = <<>>
       /\ (offlineMode /\ ClientGetMessages /\ parsedCount >= Len(allMessages)) =>
            /\ lastReturn' = <<>>
            /\ receivedMessages' = <<>>
            /\ receivedMessageIds' = <<>>
            /\ parsedCount' = parsedCount
            /\ allMessages' = allMessages]_vars

\* Two loaded records were read in one call and the call after that returned
\* three empty collections.
C16_Witness ==
    /\ offlineMode
    /\ fetched
    /\ Len(allMessages) = 2
    /\ parsedCount = 3
    /\ returned = <<1, 2>>
    /\ lastReturn = <<>>
    /\ receivedMessages = <<>>
    /\ receivedMessageIds = <<>>

---------------------------------------------------------------------------
(* SQSClient.deduplicate on its own: a message sequence, its reorderings,  *)
(* its deduplication and the deduplication of that.                        *)

DedupIds == 2           \* classification ids in the sequence M
DedupLen == 3           \* longest sequence M

\* Messages that share an id may still differ in their payload.
DedupMessages == {Message(n, k) : n \in 1..DedupIds, k \in {"good", "filtered"}}

MessageSequences == UNION {[1..n -> DedupMessages] : n \in 0..DedupLen}

InitDedup ==
    /\ Idle
    /\ NoRows
    /\ NoFetch
    /\ NoStop
    /\ NoClient
    /\ NoDims
    /\ NoFeed
    /\ origList \in MessageSequences
    /\ dedupInput = origList
    /\ result = <<>>
    /\ dstep = "input"

\* The same messages arrive in another order: two neighbours change places.
Reorder ==
    /\ dstep = "input"
    /\ \E i \in 1..(Len(dedupInput) - 1) :
        dedupInput' = [dedupInput EXCEPT ![i] = dedupInput[i + 1],
                                         ![i + 1] = dedupInput[i]]
    /\ UNCHANGED <<origList, result, dstep>>
    /\ UNCHANGED <<orchVars, parserVars, queueVars, clientVars, clientHist,
                   cycleHist, dimVars, feedVars, rowVars, liveHist, stopHist, retryHist>>

\* deduplicate(M)
Deduplicate ==
    /\ dstep = "input"
    /\ result' = deduplicate(dedupInput)
    /\ dstep' = "deduped"
    /\ UNCHANGED <<origList, dedupInput>>
    /\ UNCHANGED <<orchVars, parserVars, queueVars, clientVars, clientHist,
                   cycleHist, dimVars, feedVars, rowVars, liveHist, stopHist, retryHist>>

\* deduplicate(deduplicate(M))
DeduplicateAgain ==
    /\ dstep = "deduped"
    /\ dedupInput' = result
    /\ result' = deduplicate(result)
    /\ dstep' = "rededuped"
    /\ UNCHANGED origList
    /\ UNCHANGED <<orchVars, parserVars, queueVars, clientVars, clientHist,
                   cycleHist, dimVars, feedVars, rowVars, liveHist, stopHist, retryHist>>

NextDedup ==
    \/ Reorder
    \/ Deduplicate
    \/ DeduplicateAgain

SpecDedup == InitDedup /\ [][NextDedup]_vars

\* C4: whatever order the messages of M arrive in, deduplicate returns
\* exactly one record for each classification_id occurring in M and nothing
\* that is not a record of M, so the ids of the result are the ids of M in
\* every order; and deduplicating a result again returns the same records.
C4_OneRecordPerId ==
    /\ dstep # "input" =>
        /\ \A n \in Ids(origList) :
              Cardinality({i \in 1..Len(result) : result[i].classification_id = n}) = 1
        /\ Range(result) \subseteq Range(origList)
        /\ Ids(result) = Ids(origList)
    /\ dstep = "rededuped" =>
        /\ Range(result) = Range(dedupInput)
        /\ Len(result) = Len(dedupInput)

\* Id 1 came twice with different payloads; after a reordering its later copy
\* arrived first and is the one kept, and the second pass changed nothing.
C4_Witness ==
    /\ dstep = "rededuped"
    /\ origList = <<Message(1, "good"), Message(2, "good"), Message(1, "filtered")>>
    /\ dedupInput = <<Message(1, "filtered"), Message(2, "good")>>
    /\ result = dedupInput

---------------------------------------------------------------------------
(* SQSMessageParser.genAggregatorInput, row by row.  Box edges are kept in  *)
(* halves of a pixel (twice the value), so that 0.5 * width is exact.      *)

MaxRows == 2            \* rows of processedClassifications

\* str()
str(n) == ToString(n)

\* One tap of a worker: mark["x"], mark["y"], mark["tool"].
Tap(px, py, toolName) == [x |-> px, y |-> py, tool |-> toolName]

\* The taps of one annotation (pixels).
TapLists ==
    {<<>>,
     <<Tap(50, 50, "toolA")>>,
     <<Tap(0, 0, "toolA"), Tap(1, 1, "toolB")>>,
     <<Tap(50, 50, "toolA"), Tap(120, 80, "toolB")>>,
     <<Tap(0, 0, "toolA"), Tap(1, 1, "toolB"), Tap(100, 100, "toolC")>>,
     <<Tap(0, 0, "toolA"), Tap(100, 100, "toolB"), Tap(1, 1, "toolC")>>}

\* Resolved <<box_widths, box_heights>> of a row (pixels).
BoxDims == {<<35, 20>>, <<35, 35>>}

\* One entry of metadata["subject_dimensions"].
ImageDims(w, h) == [naturalWidth |-> w, naturalHeight |-> h]

\* The classifications extractClassifications may hand over: annotated tells
\* whether the annotations hold the parser's taskLabel.
Classifications ==
    {[subject_id |-> sid, user_id |-> 7, annotated |-> a, value |-> taps,
      box_widths |-> dims[1], box_heights |-> dims[2],
      metadata |-> [subject_dimensions |-> <<ImageDims(400, 300)>>]] :
        sid \in 1..2, a \in BOOLEAN, taps \in TapLists, dims \in BoxDims}

\* A frame has one row per classification, with the ids 1, 2, ... in order.
Frame(f) == [i \in 1..Len(f) |-> [id |-> i] @@ f[i]]

InitParser ==
    /\ Idle
    /\ NoDedup
    /\ NoDims
    /\ NoFeed
    /\ NoFetch
    /\ NoStop
    /\ NoClient
    /\ \E n \in 1..MaxRows :
         \E f \in [1..n -> Classifications] : classificationsFrame = Frame(f)
    /\ processed = FALSE
    /\ table = <<>>
    /\ filterSubjectList \in {{}, {2}}
    /\ batch = [images |-> {}, annos |-> <<>>]
    /\ built = FALSE
    /\ raised = "none"

\* Mutant of Far: every pair of taps counts as far apart.
Far_Always(first, second, w, h) == TRUE

\* np.hypot(dx, dy) > 0.75 * (box_widths + box_heights), both sides squared.
Far(first, second, w, h) ==
    16 * ((first[1] - second[1]) * (first[1] - second[1])
          + (first[2] - second[2]) * (first[2] - second[2]))
        > 9 * (w + h) * (w + h)

\* Mutant of UniqueMarkIndices: the first id of the first pair is left out.
UniqueMarkIndices_SecondIds(markings, w, h) ==
    {secondId \in 1..(Len(markings) - 1) :
        \E firstId \in 0..(secondId - 1) :
            Far(markings[firstId + 1], markings[secondId + 1], w, h)}

\* unique_mark_indices (counted from 0): all indices of a row with at most one
\* tap; otherwise the first id of the first pair, which is 0, and the second
\* id of every pair of itertools.combinations that is far apart.
UniqueMarkIndices(markings, w, h) ==
    IF Len(markings) <= 1
    THEN {k - 1 : k \in 1..Len(markings)}
    ELSE {0} \cup {secondId \in 1..(Len(markings) - 1) :
                     \E firstId \in 0..(secondId - 1) :
                         Far(markings[firstId + 1], markings[secondId + 1], w, h)}

\* np.array(markings)[unique_mark_indices]: the elements at the given indices,
\* in increasing order of index.
TakeIndices(s, indices) ==
    LET take[n \in 0..Len(s)] ==
            IF n = 0 THEN <<>>
            ELSE IF (n - 1) \in indices THEN Append(take[n - 1], s[n])
            ELSE take[n - 1]
    IN take[Len(s)]

\* metadata["subject_dimensions"] finds its key.
HasDimensionsKey(metadata) == "subject_dimensions" \in DOMAIN metadata

\* extractSubjectDimensions: metadata["subject_dimensions"][0], or None on the
\* IndexError of an empty block.
extractSubjectDimensions(metadata) ==
    IF Len(metadata.subject_dimensions) = 0 THEN None
    ELSE <<metadata.subject_dimensions[1]>>

\* fillna(method="ffill"): a missing entry takes the last entry before it
\* that is not missing, and stays missing when there is none.
ForwardFill(column) ==
    LET fill[i \in 0..Len(column)] ==
            IF i = 0 THEN None
            ELSE IF column[i] # None THEN column[i]
            ELSE fill[i - 1]
    IN [i \in 1..Len(column) |-> fill[i]]

\* imageDimsToTuple: None["naturalWidth"] is a TypeError, answered by (400, 400).
imageDimsToTuple(imageDims) ==
    IF imageDims = None THEN <<400, 400>>
    ELSE <<imageDims[1].naturalWidth, imageDims[1].naturalHeight>>

\* The row processClassifications makes of one classification, given its
\* resolved image_dimensions.
ProcessedRow(c, dimensions) ==
    LET taps == [i \in 1..Len(c.value) |-> <<c.value[i].x, c.value[i].y>>]
        kept == UniqueMarkIndices(taps, c.box_widths, c.box_heights)
    IN [id |-> c.id, subject_id |-> c.subject_id, user_id |-> c.user_id,
        original_markings |-> taps,
        markings |-> TakeIndices(taps, kept),
        tool |-> [i \in 1..Len(c.value) |-> c.value[i].tool],
        unique_mark_indices |-> kept,
        num_markings |-> Len(taps),
        num_filtered_markings |-> Len(TakeIndices(taps, kept)),
        box_widths |-> c.box_widths, box_heights |-> c.box_heights,
        image_dimensions |-> dimensions]

\* drop_duplicates(subset="id") keeps the first row of each id.
DropDuplicateIds(rows) ==
    SelectSeq([i \in 1..Len(rows) |->
                  [row |-> rows[i],
                   first |-> \A j \in 1..(i - 1) : rows[j].id # rows[i].id]],
              LAMBDA e : e.first)

Annotated(c) == c.annotated

\* SQSMessageParser.processClassifications
processClassifications ==
    /\ classificationsFrame # <<>>
    /\ ~processed
    /\ raised = "none"
    /\ LET marked == SelectSeq(classificationsFrame, Annotated)
       IN IF \E i \in 1..Len(marked) : ~HasDimensionsKey(marked[i].metadata)
          THEN \* extractSubjectDimensions catches IndexError alone
               /\ raised' = "KeyError"
               /\ UNCHANGED <<table, processed>>
          ELSE LET filled == ForwardFill([i \in 1..Len(marked) |->
                                 extractSubjectDimensions(marked[i].metadata)])
                   rows == [i \in 1..Len(marked) |->
                               ProcessedRow(marked[i], imageDimsToTuple(filled[i]))]
                   kept == DropDuplicateIds(table \o rows)
               IN /\ table' = [i \in 1..Len(kept) |-> kept[i].row]
                  /\ processed' = TRUE
                  /\ UNCHANGED raised
    /\ UNCHANGED <<classificationsFrame, filterSubjectList, batch, built>>
    /\ UNCHANGED <<orchVars, parserVars, queueVars, clientVars, clientHist,
                   cycleHist, unitVars, liveHist, stopHist, retryHist>>

\* One entry of "bboxes".
BBox(markData, toolName, rowData) ==
    [image_height |-> rowData.image_dimensions[2],
     image_width |-> rowData.image_dimensions[1],
     x |-> 2 * markData[1] - rowData.box_heights,
     x2 |-> 2 * markData[1] + rowData.box_widths,
     y |-> 2 * markData[2] - rowData.box_heights,
     y2 |-> 2 * markData[2] + rowData.box_widths,
     tool |-> toolName]

\* zip(rowData.markings, rowData.tool) stops at the shorter of the two.
BBoxes(rowData) ==
    [i \in 1..Min(Len(rowData.markings), Len(rowData.tool)) |->
        BBox(rowData.markings[i], rowData.tool[i], rowData)]

\* Mutant of NotFiltered: the exclusion list is not looked at.
NotFiltered_All(rowData) == TRUE

\* if rowData.subject_id not in self.filterSubjectList
NotFiltered(rowData) == rowData.subject_id \notin filterSubjectList

\* The rows that get an entry in annos, in table order.
KeptRows == SelectSeq(table, NotFiltered)

Anno(rowData) ==
    [anno |-> [bboxes |-> BBoxes(rowData)],
     image_id |-> str(rowData.subject_id),
     worker_id |-> str(rowData.user_id)]

\* drop_duplicates(subset="subject_id") keeps the first row of each subject.
Images ==
    {[image_id |-> str(table[i].subject_id),
      height |-> table[i].image_dimensions[2],
      width |-> table[i].image_dimensions[1]] :
        i \in {k \in 1..Len(table) :
                 /\ NotFiltered(table[k])
                 /\ \A j \in 1..(k - 1) : table[j].subject_id # table[k].subject_id}}

genAggregatorInput ==
    /\ processed
    /\ ~built
    /\ batch' = [images |-> Images,
                 annos |-> [r \in 1..Len(KeptRows) |-> Anno(KeptRows[r])]]
    /\ built' = TRUE
    /\ UNCHANGED <<classificationsFrame, processed, table, filterSubjectList, raised>>
    /\ UNCHANGED <<orchVars, parserVars, queueVars, clientVars, clientHist,
                   cycleHist, unitVars, liveHist, stopHist, retryHist>>

NextParser ==
    \/ processClassifications
    \/ genAggregatorInput

SpecParser == InitParser /\ [][NextParser]_vars

\* C5: every box emitted for a kept tap (x, y) of a row with resolved width w
\* and height h has left edge x - w/2, right edge x + w/2, top edge y - h/2
\* and bottom edge y + h/2 (here in half pixels: 2x - w, 2x + w, 2y - h,
\* 2y + h), so a tap at (50,50) with w=35, h=20 spans 32.5..67.5 by 40..60.
C5_BoxCentredOnTap ==
    built =>
        \A r \in 1..Len(batch.annos) :
            LET rowData == KeptRows[r]
                bboxes == batch.annos[r].anno.bboxes
            IN \A i \in 1..Len(bboxes) :
                /\ bboxes[i].x = 2 * rowData.markings[i][1] - rowData.box_widths
                /\ bboxes[i].x2 = 2 * rowData.markings[i][1] + rowData.box_widths
                /\ bboxes[i].y = 2 * rowData.markings[i][2] - rowData.box_heights
                /\ bboxes[i].y2 = 2 * rowData.markings[i][2] + rowData.box_heights

\* C18: the taps [(0,0), (1,1), (100,100)] of a record with box width =
\* height = 35 (threshold 52.5) are filtered to [(0,0), (100,100)], and the
\* filtered mark count is 2.
C18_ExampleFilteredToTwoTaps ==
    processed =>
        \A r \in 1..Len(table) :
            (/\ table[r].original_markings = <<<<0, 0>>, <<1, 1>>, <<100, 100>>>>
             /\ table[r].box_widths = 35
             /\ table[r].box_heights = 35) =>
                /\ table[r].markings = <<<<0, 0>>, <<100, 100>>>>
                /\ table[r].num_filtered_markings = 2

\* The example record has been processed.
C18_Witness ==
    /\ processed
    /\ \E r \in 1..Len(table) :
         /\ table[r].original_markings = <<<<0, 0>>, <<1, 1>>, <<100, 100>>>>
         /\ table[r].box_widths = 35
         /\ table[r].box_heights = 35
         /\ table[r].unique_mark_indices = {0, 2}

\* C19: for a record with more than one tap the kept indices are 0 and every
\* index j whose tap is farther than 0.75 * (box_widths + box_heights) from
\* tap 0; a tap within that distance of tap 0 is dropped whatever its distance
\* to the other taps.
C19_KeptIffFarFromTapZero ==
    processed =>
        \A r \in 1..Len(table) :
            LET row == table[r]
                taps == row.original_markings
                limit == 9 * (row.box_widths + row.box_heights)
                           * (row.box_widths + row.box_heights)
                square(j) == (taps[j + 1][1] - taps[1][1]) * (taps[j + 1][1] - taps[1][1])
                             + (taps[j + 1][2] - taps[1][2]) * (taps[j + 1][2] - taps[1][2])
            IN row.num_markings > 1 =>
                 row.unique_mark_indices =
                     {0} \cup {j \in 1..(row.num_markings - 1) : 16 * square(j) > limit}

\* C20: every box carries the tool label the worker gave to the tap it was
\* built from, also when the duplicate-tap filter removed taps before it.
C20_BoxKeepsToolOfItsTap ==
    built =>
        \A r \in 1..Len(batch.annos) :
            LET row == KeptRows[r]
                bboxes == batch.annos[r].anno.bboxes
            IN \A i \in 1..Len(bboxes) :
                bboxes[i].tool = TakeIndices(row.tool, row.unique_mark_indices)[i]

\* sub is made of elements of s taken at strictly increasing positions.
IsSubsequence(sub, s) ==
    \E at \in [1..Len(sub) -> 1..Len(s)] :
        /\ \A i \in 1..Len(sub) : sub[i] = s[at[i]]
        /\ \A i, j \in 1..Len(sub) : i < j => at[i] < at[j]

\* C30: the duplicate-tap filter only removes taps: in every record the
\* filtered taps are a subsequence of the original taps in their order, tap 0
\* is among them when the record has a tap, a record with at most one tap
\* keeps its taps as they are, and num_filtered_markings is the length of the
\* filtered taps.
C30_FilterOnlyRemovesTaps ==
    \A r \in 1..Len(table) :
        LET row == table[r]
        IN /\ IsSubsequence(row.markings, row.original_markings)
           /\ Len(row.original_markings) >= 1 =>
                 /\ 0 \in row.unique_mark_indices
                 /\ row.markings # <<>>
                 /\ row.markings[1] = row.original_markings[1]
           /\ Len(row.original_markings) <= 1 =>
                 row.markings = row.original_markings
           /\ row.num_filtered_markings = Len(row.markings)

\* The filter has removed the middle tap of one record and left the single
\* tap of another as it was.
C30_Witness ==
    /\ processed
    /\ \E r \in 1..Len(table) :
         /\ Len(table[r].original_markings) = 3
         /\ table[r].markings = <<table[r].original_markings[1],
                                  table[r].original_markings[3]>>
         /\ table[r].num_filtered_markings = 2
    /\ \E r \in 1..Len(table) :
         /\ Len(table[r].original_markings) = 1
         /\ table[r].markings = table[r].original_markings

---------------------------------------------------------------------------
(* SQSMessageParser.__init__ / setMarkDimensions and extractBoxWidths /     *)
(* extractBoxHeights on their own: a parser is constructed from keyword     *)
(* arguments and resolves the box size of one subject.                      *)

MaxScale == 2           \* largest markScaleFactor

defaultMarkWidth == 35
defaultMarkHeight == 35

\* The metadata fields a subject may carry, and their values (pixels).
FieldNames == {"size", "width", "height"}
FieldValues == {20, 50}

\* subject["metadata"]: a dict with some of the fields.
Subjects ==
    {[metadata |-> m] : m \in UNION {[D -> FieldValues] : D \in SUBSET FieldNames}}

\* The keyword arguments a parser may be constructed with; None is an
\* argument that is not passed.
KeywordArguments ==
    [markWidth : {None, <<60>>},
     markHeight : {None, <<40>>},
     sizeMetaDatumName : {None, <<"size">>},
     widthMetaDatumName : {None, <<"width">>},
     heightMetaDatumName : {None, <<"height">>},
     markScaleFactor : 1..MaxScale]

InitDims ==
    /\ Idle
    /\ NoClient
    /\ NoDedup
    /\ NoRows
    /\ NoFetch
    /\ NoStop
    /\ NoFeed
    /\ kwargs \in KeywordArguments
    /\ markWidth = None
    /\ markHeight = None
    /\ sizeMetaDatumName = None
    /\ widthMetaDatumName = None
    /\ heightMetaDatumName = None
    /\ markScaleFactor = 1
    /\ subject \in Subjects
    /\ boxSize = None
    /\ dimStep = "args"

\* kwargs.get(key, default)
Get(key, default) == IF kwargs[key] # None THEN kwargs[key] ELSE default

\* if not self.widthMetaDatumName: self.widthMetaDatumName = self.sizeMetaDatumName
NameOrSize(name) == IF name # None THEN name ELSE Get("sizeMetaDatumName", None)

\* not (self.markWidth or self.markHeight or self.sizeMetaDatumName or
\*      (self.widthMetaDatumName and self.heightMetaDatumName)),
\* where self.markWidth and self.markHeight have just been set to None.
NoDimensionMetadata ==
    ~(\/ Get("sizeMetaDatumName", None) # None
      \/ /\ NameOrSize(Get("widthMetaDatumName", None)) # None
         /\ NameOrSize(Get("heightMetaDatumName", None)) # None)

\* SQSMessageParser.__init__: markScaleFactor, then setMarkDimensions(**kwargs)
setMarkDimensions ==
    /\ dimStep = "args"
    /\ markScaleFactor' = kwargs.markScaleFactor
    /\ sizeMetaDatumName' = Get("sizeMetaDatumName", None)
    /\ widthMetaDatumName' = NameOrSize(Get("widthMetaDatumName", None))
    /\ heightMetaDatumName' = NameOrSize(Get("heightMetaDatumName", None))
    /\ IF NoDimensionMetadata
       THEN /\ markWidth' = Get("markWidth", <<defaultMarkWidth>>)
            /\ markHeight' = Get("markHeight", <<defaultMarkHeight>>)
       ELSE /\ markWidth' = None
            /\ markHeight' = None
    /\ dimStep' = "constructed"
    /\ UNCHANGED <<kwargs, subject, boxSize>>
    /\ UNCHANGED <<orchVars, parserVars, queueVars, clientVars, clientHist,
                   cycleHist, dedupVars, feedVars, rowVars, liveHist, stopHist, retryHist>>

\* The body of extractBoxWidths and of extractBoxHeights: the fixed value if
\* there is one, else the named field of the metadata; a KeyError (the name
\* is no key of the metadata) gives the default.  All are scaled.
ExtractBox(s, fixed, name, default) ==
    IF fixed # None THEN fixed[1] * markScaleFactor
    ELSE IF name # None /\ name[1] \in DOMAIN s.metadata
         THEN s.metadata[name[1]] * markScaleFactor
         ELSE default * markScaleFactor

extractBoxWidths(s) == ExtractBox(s, markWidth, widthMetaDatumName, defaultMarkWidth)

extractBoxHeights(s) == ExtractBox(s, markHeight, heightMetaDatumName, defaultMarkHeight)

\* processClassifications: the box_widths and box_heights of one subject.
ExtractBoxSize ==
    /\ dimStep = "constructed"
    /\ boxSize' = <<extractBoxWidths(subject), extractBoxHeights(subject)>>
    /\ dimStep' = "extracted"
    /\ UNCHANGED <<kwargs, markWidth, markHeight, sizeMetaDatumName, widthMetaDatumName,
                   heightMetaDatumName, markScaleFactor, subject>>
    /\ UNCHANGED <<orchVars, parserVars, queueVars, clientVars, clientHist,
                   cycleHist, dedupVars, feedVars, rowVars, liveHist, stopHist, retryHist>>

NextDims ==
    \/ setMarkDimensions
    \/ ExtractBoxSize

SpecDims == InitDims /\ [][NextDims]_vars

\* C21: for width and height independently, the resolved dimension is the
\* fixed value passed as markWidth / markHeight times the scale factor
\* whenever one was passed, whether or not a metadata field name was passed
\* too; otherwise the subject metadata's named field times the scale factor;
\* and the default 35 (taken with or without the scale factor) when that
\* field is absent.
C21_BoxDimensionResolution ==
    dimStep = "extracted" =>
        LET scale == kwargs.markScaleFactor
            Resolved(fixed, own) ==
                IF fixed # None THEN {fixed[1] * scale}
                ELSE LET name == IF own # None THEN own ELSE kwargs.sizeMetaDatumName
                     IN IF name # None /\ name[1] \in DOMAIN subject.metadata
                        THEN {subject.metadata[name[1]] * scale}
                        ELSE {35, 35 * scale}
        IN /\ boxSize[1] \in Resolved(kwargs.markWidth, kwargs.widthMetaDatumName)
           /\ boxSize[2] \in Resolved(kwargs.markHeight, kwargs.heightMetaDatumName)

---------------------------------------------------------------------------
(* One SQSMessageParser fed with the messages of a stream: processMessages  *)
(* is called with consecutive slices of it, as accumulateMessages hands     *)
(* them over, and runs extractClassifications, processClassifications and   *)
(* genAggregatorInput in turn.                                              *)

StreamLen == 3          \* messages in the longest stream
MaxTake == 2            \* largest number of messages handed over in one call

\* classification["metadata"]: without the key "subject_dimensions", with an
\* empty block, or with a block that holds the pixel size of the image.
MetadataShapes ==
    {[started_at |-> 0],
     [subject_dimensions |-> <<>>],
     [subject_dimensions |-> <<ImageDims(400, 300)>>],
     [subject_dimensions |-> <<ImageDims(800, 600)>>]}

\* The messages that may stand at place n of a stream: a classification that
\* passes subjectMetadataFilter ("good"), one that it rejects ("filtered"), and
\* a message without message["data"]["classification"] ("nopayload").
StreamMessages(n) ==
    {Message(n, "good") @@ [metadata |-> md] : md \in MetadataShapes}
        \cup {Message(n, k) @@ [metadata |-> [started_at |-> 0]] :
                 k \in {"filtered", "nopayload"}}

\* The first task's parser is the one fed.
Fed == 1

\* A call of processMessages has handed a frame to processClassifications and
\* genAggregatorInput has not finished yet.
InCall == classificationsFrame # <<>> /\ ~built

InitMessages ==
    /\ Idle
    /\ NoClient
    /\ NoDedup
    /\ NoDims
    /\ NoFetch
    /\ NoStop
    /\ classificationsFrame = <<>>
    /\ processed = FALSE
    /\ table = <<>>
    /\ filterSubjectList \in {{}, {2}}
    /\ batch = [images |-> {}, annos |-> <<>>]
    /\ built = FALSE
    /\ raised = "none"
    /\ \E n \in 1..StreamLen :
         \E f \in [1..n -> UNION {StreamMessages(i) : i \in 1..StreamLen}] :
            /\ \A i \in 1..n : f[i].classification_id = i
            /\ stream = f
    /\ taken = 0
    /\ messageBatch = <<>>

\* message["data"]["classification"]["subject"]["metadata"], evaluated in the
\* condition of the comprehension for every message that is not yet seen,
\* outside any try: a message without the payload raises KeyError there.
PayloadMissing(uniqueMessages) ==
    \E i \in 1..Len(uniqueMessages) :
        /\ IsNew(Fed, uniqueMessages[i])
        /\ uniqueMessages[i].kind = "nopayload"

\* One row of the frame extractClassifications returns.
Classification(message) ==
    [id |-> message.classification_id,
     subject_id |-> (message.classification_id + 1) \div 2,
     user_id |-> 7,
     annotated |-> TRUE,
     value |-> <<Tap(50, 50, "toolA")>>,
     box_widths |-> defaultMarkWidth,
     box_heights |-> defaultMarkHeight,
     metadata |-> message.metadata]

\* extractClassifications: the frame of the records that are new and accepted.
extractClassifications(uniqueMessages) ==
    LET accepted == SelectSeq(uniqueMessages,
                        LAMBDA m : IsNew(Fed, m) /\ m.kind = "good")
    IN [i \in 1..Len(accepted) |-> Classification(accepted[i])]

\* processMessages(uniqueMessages), up to the return of extractClassifications.
ProcessMessages ==
    /\ ~InCall
    /\ raised = "none"
    /\ taken < Len(stream)
    /\ \E k \in 1..MaxTake :
         LET uniqueMessages == SubSeq(stream, taken + 1, Min(taken + k, Len(stream)))
         IN /\ messageBatch' = uniqueMessages
            /\ taken' = taken + Len(uniqueMessages)
            /\ IF PayloadMissing(uniqueMessages)
               THEN /\ raised' = "KeyError"
                    /\ UNCHANGED <<allClassificationIds, classificationsFrame,
                                   processed, built>>
               ELSE /\ allClassificationIds' = SeenAfter(Fed, uniqueMessages)
                    /\ classificationsFrame' = extractClassifications(uniqueMessages)
                    /\ IF classificationsFrame' = <<>>
                       THEN UNCHANGED <<processed, built>>
                       ELSE processed' = FALSE /\ built' = FALSE
                    /\ UNCHANGED raised
    /\ UNCHANGED <<stream, table, filterSubjectList, batch>>
    /\ UNCHANGED <<orchVars, processedClassifications, aggregatorInputData, queueVars,
                   clientVars, clientHist, cycleHist, dedupVars, dimVars, liveHist,
                   stopHist, retryHist>>

\* clearProcessedClassifications, between two calls.
ClearProcessed ==
    /\ ~InCall
    /\ raised = "none"
    /\ table # <<>>
    /\ table' = <<>>
    /\ UNCHANGED <<classificationsFrame, processed, filterSubjectList, batch, built, raised>>
    /\ UNCHANGED <<orchVars, parserVars, queueVars, clientVars, clientHist,
                   cycleHist, unitVars, liveHist, stopHist, retryHist>>

NextMessages ==
    \/ ProcessMessages
    \/ processClassifications
    \/ genAggregatorInput
    \/ ClearProcessed

SpecMessages == InitMessages /\ [][NextMessages]_vars

\* C22: no exception leaves processMessages because a message lacks its
\* classification payload, its subject metadata or its subject-dimension
\* block; and once a call is through, the well-formed messages of its batch
\* are in the parser's table.
C22_MalformedMessageNeverAborts ==
    /\ raised = "none"
    /\ (raised = "none" /\ built /\ table # <<>>) =>
          \A i \in 1..Len(messageBatch) :
              (/\ messageBatch[i].kind = "good"
               /\ "subject_dimensions" \in DOMAIN messageBatch[i].metadata) =>
                  \E r \in 1..Len(table) : table[r].id = messageBatch[i].classification_id

\* C23: a record whose dimension block is unavailable gets the dimensions of
\* the closest earlier record in fetch order whose dimensions are known, also
\* when that record was processed in an earlier call of the parser, and gets
\* 400x400 only when no earlier record has known dimensions; a record with
\* a dimension block gets its own.
C23_DimensionsCarriedForward ==
    \A r \in 1..Len(table) :
        LET i == table[r].id
            Known(j) == /\ stream[j].kind = "good"
                        /\ "subject_dimensions" \in DOMAIN stream[j].metadata
                        /\ stream[j].metadata.subject_dimensions # <<>>
            Own(j) == <<stream[j].metadata.subject_dimensions[1].naturalWidth,
                        stream[j].metadata.subject_dimensions[1].naturalHeight>>
            earlier == {j \in 1..(i - 1) : Known(j)}
        IN table[r].image_dimensions =
              IF Known(i) THEN Own(i)
              ELSE IF earlier = {} THEN <<400, 400>>
              ELSE Own(CHOOSE j \in earlier : \A k \in earlier : k <= j)

\* C26: the batch genAggregatorInput builds from the parser's table has no
\* image and no anno of a subject in the exclusion list, exactly one image
\* for each subject of the table that is not excluded and no other image,
\* exactly one anno for each record of the table that is not excluded, and
\* for every anno an image with its image_id.
C26_BatchAssembly ==
    [][genAggregatorInput =>
        LET excluded == {str(sid) : sid \in filterSubjectList}
            records == {r \in 1..Len(table) : table[r].subject_id \notin filterSubjectList}
            subjects == {table[r].subject_id : r \in records}
            images == batch'.images
            annos == batch'.annos
        IN /\ \A e \in images : e.image_id \notin excluded
           /\ \A a \in 1..Len(annos) : annos[a].image_id \notin excluded
           /\ \A sid \in subjects :
                 Cardinality({e \in images : e.image_id = str(sid)}) = 1
           /\ \A e \in images : \E sid \in subjects : e.image_id = str(sid)
           /\ Len(annos) = Cardinality(records)
           /\ \A a \in 1..Len(annos) :
                 \E e \in images : e.image_id = annos[a].image_id]_vars

\* A table with two records of subject 1, of different pixel sizes, and one
\* of the excluded subject 2 gave one image and two annos.
C26_Witness ==
    /\ built
    /\ raised = "none"
    /\ filterSubjectList = {2}
    /\ Len(table) = 3
    /\ table[1].subject_id = 1
    /\ table[2].subject_id = 1
    /\ table[3].subject_id = 2
    /\ table[1].image_dimensions # table[2].image_dimensions
    /\ batch.images = {[image_id |-> "1", height |-> table[1].image_dimensions[2],
                        width |-> table[1].image_dimensions[1]]}
    /\ Len(batch.annos) = 2

===========================================================================
